---- MODULE Spec2Model ----
(***************************************************************************)
(* FileNavigationSound: a monitor that reads the output of a dbus-monitor  *)
(* subprocess line by line, cuts it into "method call" blocks, extracts an *)
(* application event from each block and feeds it to a small state machine *)
(* that decides whether the navigation sound is played.                    *)
(*                                                                         *)
(* Text is modelled as sequences of tokens: a path is the sequence of its  *)
(* characters ("/" and names), so that os.path.dirname and str.strip are   *)
(* computed, not assumed.  A line of the stream is a record holding what   *)
(* the parser's substring tests and regular expressions read from it.      *)
(***************************************************************************)
EXTENDS Integers, Sequences, FiniteSets, TLC

\* ------------------------------------------------------------------ bounds
\* Most lines a block may hold, the "method call" line included.
MaxCallData == 4
\* Most dbus-monitor subprocesses launched in one run.
MaxSpawn == 2
\* Process ids the target application may run under: 1..MaxPid.
MaxPid == 1
SerialMod == 2
MaxThreads == 3

\* --------------------------------------------------------------- constants
DEFAULT_APP_NAME == "dolphin"

\* Python's None, for each type of field it stands in.
NoneStr == "<None>"
NonePath == <<"<None>">>
NoneInt == 0 - 1

\* ------------------------------------------------------------------- paths
Slash == "/"
Space == " "
DirA == <<Slash, "a">>
FileInA == <<Slash, "a", Slash, "f">>
DirB == <<Slash, "b">>
Root == <<Slash>>
EmptyPath == << >>
TrashBodyX == <<"x">>

\* The directories of the file system the monitor runs on.
Directories == {Root, DirA, DirB}

is_directory(path) == path \in Directories

RECURSIVE LStrip(_)
LStrip(s) == IF s # << >> /\ Head(s) = Space THEN LStrip(Tail(s)) ELSE s

RECURSIVE RStrip(_, _)
RStrip(s, ch) ==
    IF s # << >> /\ s[Len(s)] = ch THEN RStrip(SubSeq(s, 1, Len(s) - 1), ch) ELSE s

\* str.strip()
Strip(s) == RStrip(LStrip(s), Space)

RECURSIVE RFind(_, _, _)
\* str.rfind(ch) + 1 over s[1..i]: the position of the last ch, 0 when absent
RFind(s, ch, i) ==
    IF i = 0 THEN 0 ELSE IF s[i] = ch THEN i ELSE RFind(s, ch, i - 1)

AllSlashes(s) == \A i \in 1..Len(s) : s[i] = Slash

\* Mutant of Dirname: the trailing separator is kept, as p[:p.rfind('/') + 1].
DirnameKeepsSlash(p) == SubSeq(p, 1, RFind(p, Slash, Len(p)))

\* os.path.dirname (posixpath)
Dirname(p) ==
    LET i == RFind(p, Slash, Len(p))
        head == SubSeq(p, 1, i)
    IN  IF head # << >> /\ ~AllSlashes(head) THEN RStrip(head, Slash) ELSE head

\* "trash://" + body
TrashScheme == <<"trash:", Slash, Slash>>

\* ------------------------------------------------------------------- lines
\* kind: "mc"    a line containing "method call"
\*       "app"   a line containing  string "<app_name>"
\*       "file"  a line containing "string" and  file://<body>"
\*       "trash" a line containing "string" and  trash:/<body>"  (no file://)
\*       "uint"  a line containing  uint32 <n>
\*       "eof"   the empty string readline() returns at end of stream
Line(kind, n, body) == [kind |-> kind, n |-> n, body |-> body]

MethodCall == Line("mc", NoneInt, EmptyPath)
AppLine == Line("app", NoneInt, EmptyPath)
Uint(n) == Line("uint", n, EmptyPath)
FileLine(body) == Line("file", NoneInt, body)
TrashLine(body) == Line("trash", NoneInt, body)
EofLine == Line("eof", NoneInt, EmptyPath)

\* The argument lines the parser tells apart.
ArgLines ==
    {AppLine, Uint(1), Uint(3),
     FileLine(DirA), FileLine(FileInA), FileLine(DirB),
     TrashLine(EmptyPath), TrashLine(TrashBodyX)}

ContainsString(l) == l.kind \in {"app", "file", "trash"}

\* re.search('uint32 (\d+)', line): the number, or None
UintMatch(l) == IF l.kind = "uint" THEN l.n ELSE NoneInt

RECURSIVE IndexFrom(_, _, _)
\* list.index(x): the first position holding a line equal to x
IndexFrom(lines, x, i) ==
    IF lines[i] = x THEN i ELSE IndexFrom(lines, x, i + 1)

Index(lines, x) == IndexFrom(lines, x, 1)

\* ------------------------------------------------------------------ events
\* The dictionary app_call; "raised" is set when building it raised.
AppCall(application, app_uint, file_path, file_uint) ==
    [application |-> application, app_uint |-> app_uint,
     file_path |-> file_path, file_uint |-> file_uint, raised |-> FALSE]

EmptyAppCall == AppCall(NoneStr, NoneInt, NonePath, NoneInt)

\* IndexError (lines[... + 1] past the end) or AttributeError (None.group)
Raised == [EmptyAppCall EXCEPT !.raised = TRUE]

\* Mutant of NoTrashBody: the test for an empty body is lost.
TrashUnmatched(data_line, body) == data_line.kind # "trash"

\* "file_path_match is None or file_path_match.group(1).strip() == ''", for the
\* trash:/ pattern; body is the stripped body.
NoTrashBody(data_line, body) == data_line.kind # "trash" \/ body = EmptyPath

\* One iteration of "for data_line in lines" on the line at position i.
ScanLine(app_name, lines, i, c) ==
    LET data_line == lines[i]
        nxt == Index(lines, data_line) + 1
        body == Strip(data_line.body)
    IN  IF data_line.kind = "app" THEN
            IF nxt > Len(lines) THEN Raised
            ELSE LET m == UintMatch(lines[nxt])
                 IN  [c EXCEPT !.application = app_name,
                               !.app_uint = IF m # NoneInt THEN m ELSE @]
        ELSE IF ~ContainsString(data_line) THEN c
        ELSE IF data_line.kind = "file" THEN
            IF nxt > Len(lines) THEN Raised
            ELSE LET m == UintMatch(lines[nxt])
                 IN  [c EXCEPT !.file_path = body,
                               !.file_uint = IF m # NoneInt THEN m ELSE @]
        ELSE IF NoTrashBody(data_line, body) THEN c
        ELSE IF nxt > Len(lines) THEN Raised
        ELSE IF UintMatch(lines[nxt]) = NoneInt THEN Raised
        ELSE [c EXCEPT !.file_path = TrashScheme \o body,
                       !.file_uint = UintMatch(lines[nxt])]

RECURSIVE ScanFrom(_, _, _, _)
ScanFrom(app_name, lines, i, c) ==
    IF i > Len(lines) \/ c.raised THEN c
    ELSE ScanFrom(app_name, lines, i + 1, ScanLine(app_name, lines, i, c))

\* DolphinMonitor.extract_app_event
extract_app_event(app_name, lines) ==
    LET c == ScanFrom(app_name, lines, 1, EmptyAppCall)
    IN  IF c.raised THEN c
        ELSE IF c.file_path # NonePath /\ ~is_directory(c.file_path)
             THEN [c EXCEPT !.file_path = Dirname(c.file_path)]
             ELSE c

\* ----------------------------------------------------------- state machine
InitialState == "InitialState"
WaitingForNewDirState == "WaitingForNewDirState"
SoundPlayedState == "SoundPlayedState"
States == {InitialState, WaitingForNewDirState, SoundPlayedState}

\* The result of one call: the monitor's fields after it, and how many times
\* play_sound was called.
Outcome(st, last, plays) == [state |-> st, last_directory |-> last, plays |-> plays]

\* Mutant of Rejected: only an absent application is rejected.
RejectedOnlyNone(app_name, event) == event.application \in {NoneStr, ""}

\* "not event['application'] or event['application'] != self.app_name"
Rejected(app_name, event) ==
    \/ event.application \in {NoneStr, ""}
    \/ event.application # app_name

\* Mutant of FromInitial: the comparison with last_directory is lost.
FromInitialNoDedup(st, last, event) ==
    st = InitialState /\ event.file_uint = 3

\* The condition of the first branch of handle_app_event.
FromInitial(st, last, event) ==
    st = InitialState /\ event.file_uint = 3 /\ event.file_path # last

\* Mutant of FromWaiting: file_uint 1 is not accepted.
FromWaitingOnly3(st, last, event) ==
    st = WaitingForNewDirState /\ event.file_uint = 3 /\ last # event.file_path

\* The condition of its second branch.
FromWaiting(st, last, event) ==
    st = WaitingForNewDirState /\ event.file_uint \in {1, 3} /\ last # event.file_path

\* Mutant of Cooldown: the state is left at SoundPlayedState.
CooldownStuck(st, last) == Outcome(SoundPlayedState, last, 0)

\* Mutant of Cooldown: the state machine is re-armed in WaitingForNewDirState.
CooldownToWaiting(st, last) == Outcome(WaitingForNewDirState, last, 0)

\* What its third branch does: the state goes back to InitialState.
Cooldown(st, last) == Outcome(InitialState, last, 0)

\* DolphinMonitor.handle_app_event
handle_app_event(app_name, st, last, event) ==
    IF Rejected(app_name, event) THEN Outcome(st, last, 0)
    ELSE IF FromInitial(st, last, event)
         THEN Outcome(SoundPlayedState, event.file_path, 1)
    ELSE IF FromWaiting(st, last, event)
         THEN Outcome(SoundPlayedState, event.file_path, 1)
    ELSE IF st = SoundPlayedState THEN Cooldown(st, last)
    ELSE Outcome(st, last, 0)

\* ------------------------------------------------------------------- state
VARIABLES
    threads,             \* where each playback thread is in _play_sound_thread
    playing,             \* playback threads whose cue is sounding on a mixer channel
    next_serial,         \* rank of the next "method call" line the subprocess prints
    fed,                 \* rank of the next block to parse, i.e. blocks parsed since the launch
    snapshot,            \* the set get_app_pids() returned last in monitor()
    sleeping,            \* the asyncio.sleep the program is suspended in ("none": not in one)
    pc,                  \* where the program is (see the actions)
    state,               \* self.state of the monitor of the innermost main()
    last_directory,      \* self.last_directory of that monitor
    process,             \* self.process of that monitor: a handle, or 0 (None)
    outer,               \* self.process of the monitors of the enclosing main() calls
    spawned,             \* number of subprocesses launched so far
    running,             \* handles launched and not terminated by the program
    mixer,               \* pygame.mixer is initialised
    known_app_pids,      \* monitor()'s baseline snapshot
    cached_method_call,  \* monitor()'s held-over line ("" when none)
    call_data,           \* monitor()'s block under accumulation
    eof,                 \* the current subprocess's stdout has reached its end
    h,                   \* the last step's call of handle_app_event, if it made one
    hist                 \* what this monitor's earlier calls did

vars ==
    <<pc, state, last_directory, process, outer, spawned, running, mixer,
      known_app_pids, cached_method_call, call_data, eof, h, hist, sleeping,
      snapshot, next_serial, fed, threads, playing>>

NoProcess == 0

\* The threads play_sound() starts, in the order of the emissions.  Spec keeps
\* a cue as the emission itself (the plays field); what the threads then do to
\* the mixer is explored in SpecPlay.
PlayThreads == 1..MaxThreads

NoThreads == [t \in PlayThreads |-> "none"]

\* What the earlier calls of handle_app_event on this monitor object did.  The
\* "latest event" is the latest one the application filter accepted.
\*   any:     some event has been accepted
\*   path:    file_path of the latest event
\*   uint3:   the latest event carried file_uint 3
\*   pre:     self.state when the latest event was handled
\*   plays:   play_sound calls made for the latest event
\*   cue:     file_path of the latest event that played the sound
\*   all3:    every accepted event so far carried file_uint 3
\*   churned: monitor() has restarted itself on this object and no event has
\*            been handled since
NoHist == [any |-> FALSE, path |-> NonePath, uint3 |-> FALSE, pre |-> InitialState,
           plays |-> 0, cue |-> NonePath, all3 |-> TRUE, churned |-> FALSE]

NoCall == [called |-> FALSE, event |-> EmptyAppCall, pre_state |-> InitialState,
           pre_last |-> NonePath, plays |-> 0, before |-> NoHist]

CallOf(event, st, last, out, before) ==
    [called |-> TRUE, event |-> event, pre_state |-> st, pre_last |-> last,
     plays |-> out.plays, before |-> before]

HistAfter(before, app_name, event, st, out) ==
    IF Rejected(app_name, event) THEN [before EXCEPT !.churned = FALSE]
    ELSE [any |-> TRUE, path |-> event.file_path, uint3 |-> event.file_uint = 3,
          pre |-> st, plays |-> out.plays,
          cue |-> IF out.plays > 0 THEN event.file_path ELSE before.cue,
          all3 |-> before.all3 /\ event.file_uint = 3, churned |-> FALSE]

\* self.handle_app_event(event) on the current monitor
Handle(event) ==
    LET out == handle_app_event(DEFAULT_APP_NAME, state, last_directory, event)
    IN  /\ state' = out.state
        /\ last_directory' = out.last_directory
        /\ h' = CallOf(event, state, last_directory, out, hist)
        /\ hist' = HistAfter(hist, DEFAULT_APP_NAME, event, state, out)

Pids == 1..MaxPid

\* psutil.process_iter filtered by name: any set of the application's pids
Snapshots == SUBSET Pids

\* Mutant of HasChurn: only new pids count, "if new_pids".
GrewOnly(known, current) == (current \ known) # {}

\* "if closed_pids or new_pids"
HasChurn(known, current) == (current \ known) # {} \/ (known \ current) # {}

\* The lines the subprocess writes in the runs explored: "method call" lines
\* and the argument lines of RegisterResourceEvent calls on two directories.
StreamLines == {MethodCall, AppLine, Uint(3), FileLine(DirA), FileLine(DirB)}

\* What readline() may return: a line the subprocess wrote, or "" at the end of
\* the stream and for ever after.
Readable == IF eof THEN {EofLine} ELSE StreamLines \cup {EofLine}

\* __init__ (the fields the model keeps) and the start of main()
Init ==
    /\ pc = "popen"
    /\ state = InitialState
    /\ last_directory = NonePath
    /\ process = NoProcess
    /\ outer = << >>
    /\ spawned = 0
    /\ running = {}
    /\ mixer = TRUE
    /\ known_app_pids = {}
    /\ cached_method_call = EofLine
    /\ call_data = << >>
    /\ eof = FALSE
    /\ h = NoCall
    /\ hist = NoHist
    /\ sleeping = "none"
    /\ snapshot = {}
    /\ next_serial = 0 /\ fed = 0
    /\ threads = NoThreads /\ playing = {}

\* monitor(), up to the loop: launch the subprocess, take the baseline.
Popen ==
    /\ pc = "popen"
    /\ spawned < MaxSpawn
    /\ spawned' = spawned + 1
    /\ process' = spawned + 1
    /\ running' = running \cup {spawned + 1}
    /\ \E pids \in Snapshots : known_app_pids' = pids /\ snapshot' = pids
    /\ cached_method_call' = EofLine
    /\ call_data' = << >>
    /\ eof' = FALSE
    /\ pc' = "loop"
    /\ h' = NoCall
    /\ UNCHANGED <<state, last_directory, outer, mixer, hist>>
    /\ sleeping' = "none"
    /\ next_serial' = 0 /\ fed' = 0
    /\ UNCHANGED <<threads, playing>>

\* dbus-monitor numbers the messages it prints ("serial="): the "method call"
\* lines of one subprocess are told apart by their rank, kept modulo SerialMod.
NextSerial(k) == (k + 1) % SerialMod

Stamp(l, k) == IF l.kind = "mc" THEN [l EXCEPT !.n = k] ELSE l

\* self.process.stdout.readline(): each choice is the line read, whether the
\* stream has now ended, and the rank of the next "method call" line.
ReadLine ==
    {<<Stamp(l, next_serial), eof \/ l = EofLine,
       IF l.kind = "mc" THEN NextSerial(next_serial) ELSE next_serial>> :
        l \in Readable}

\* Mutant of TakeLine: the held-over line is ignored, every line is a fresh read.
TakeFresh == ReadLine

\* The top of the outer loop: the line is the held-over one or a fresh read.
TakeLine ==
    IF cached_method_call # EofLine
    THEN {<<cached_method_call, eof, next_serial>>}
    ELSE ReadLine

\* One iteration of the outer loop that finds the set of pids changed.
LoopChurn ==
    /\ pc = "loop"
    /\ \E current \in Snapshots : HasChurn(known_app_pids, current) /\ snapshot' = current
    /\ \E t \in TakeLine : eof' = t[2] /\ next_serial' = t[3]
    /\ cached_method_call' = EofLine
    /\ pc' = "settle"
    /\ h' = NoCall
    /\ UNCHANGED <<state, last_directory, process, outer, spawned, running, mixer,
                   known_app_pids, call_data, hist>>
    /\ sleeping' = "0.5"
    /\ UNCHANGED fed
    /\ UNCHANGED <<threads, playing>>

\* One iteration of the outer loop, no churn: a "method call" line opens a
\* block, any other line is dropped.
LoopLine ==
    /\ pc = "loop"
    /\ \E current \in Snapshots : ~HasChurn(known_app_pids, current) /\ snapshot' = current
    /\ \E t \in TakeLine :
         /\ eof' = t[2]
         /\ next_serial' = t[3]
         /\ IF t[1].kind = "mc"
            THEN call_data' = <<t[1]>> /\ pc' = "inner"
            ELSE call_data' = call_data /\ pc' = "loop"
    /\ cached_method_call' = EofLine
    /\ h' = NoCall
    /\ UNCHANGED <<state, last_directory, process, outer, spawned, running, mixer,
                   known_app_pids, hist>>
    /\ sleeping' = "none"
    /\ UNCHANGED fed
    /\ UNCHANGED <<threads, playing>>

\* After sleep(0.5): terminate the subprocess; sleep(0.1) follows, then the
\* recursive call of monitor() on the same object.
ChurnTerminate ==
    /\ pc = "settle"
    /\ running' = running \ {process}
    /\ process' = NoProcess
    /\ pc' = "popen"
    /\ h' = NoCall
    /\ hist' = [hist EXCEPT !.churned = TRUE]
    /\ UNCHANGED <<state, last_directory, outer, spawned, mixer, known_app_pids,
                   cached_method_call, call_data, eof>>
    /\ sleeping' = "0.1"
    /\ UNCHANGED snapshot
    /\ UNCHANGED <<next_serial, fed>>
    /\ UNCHANGED <<threads, playing>>

\* One iteration of the inner loop.  At end of stream readline() returns ""
\* at once, every time, and the line is appended: the list grows without end
\* (kept here at MaxCallData lines).
InnerRead ==
    /\ pc = "inner"
    /\ \E t \in ReadLine : LET sub_line == t[1] IN
         /\ eof' = t[2]
         /\ next_serial' = t[3]
         /\ IF sub_line.kind = "mc"
            THEN /\ cached_method_call' = sub_line
                 /\ call_data' = call_data
                 /\ pc' = "debounce"
            ELSE /\ Len(call_data) < MaxCallData \/ sub_line = EofLine
                 /\ call_data' = IF Len(call_data) < MaxCallData
                                 THEN Append(call_data, sub_line) ELSE call_data
                 /\ cached_method_call' = cached_method_call
                 /\ pc' = "inner"
    /\ h' = NoCall
    /\ UNCHANGED <<state, last_directory, process, outer, spawned, running, mixer,
                   known_app_pids, hist>>
    /\ sleeping' = IF pc' = "debounce" THEN "0.03" ELSE "none"
    /\ UNCHANGED snapshot
    /\ UNCHANGED fed
    /\ UNCHANGED <<threads, playing>>

\* After sleep(0.03): extract the event and hand it to the state machine.
HandleBlock ==
    /\ pc = "debounce"
    /\ LET event == extract_app_event(DEFAULT_APP_NAME, call_data)
       IN  ~event.raised /\ Handle(event)
    /\ call_data' = << >>
    /\ pc' = "loop"
    /\ UNCHANGED <<process, outer, spawned, running, mixer, known_app_pids,
                   cached_method_call, eof>>
    /\ sleeping' = "none"
    /\ UNCHANGED snapshot
    /\ fed' = NextSerial(fed) /\ UNCHANGED next_serial
    /\ UNCHANGED <<threads, playing>>

\* After sleep(0.03): extract_app_event raises; the exception leaves monitor()
\* and asyncio.run() and reaches main()'s "except Exception".
HandleBlockRaises ==
    /\ pc = "debounce"
    /\ extract_app_event(DEFAULT_APP_NAME, call_data).raised
    /\ call_data' = << >>
    /\ cached_method_call' = EofLine
    /\ known_app_pids' = {}
    /\ pc' = "except"
    /\ h' = NoCall
    /\ UNCHANGED <<state, last_directory, process, outer, spawned, running, mixer,
                   eof, hist>>
    /\ sleeping' = "none"
    /\ snapshot' = {}
    /\ next_serial' = 0 /\ fed' = 0
    /\ UNCHANGED <<threads, playing>>

\* main()'s except clause: asyncio.sleep(5) is called but not awaited, then
\* main() calls itself, which builds a new DolphinMonitor.
MainRestart ==
    /\ pc = "except"
    /\ outer' = Append(outer, process)
    /\ process' = NoProcess
    /\ state' = InitialState
    /\ last_directory' = NonePath
    /\ mixer' = TRUE
    /\ hist' = NoHist
    /\ eof' = FALSE
    /\ pc' = "popen"
    /\ h' = NoCall
    /\ UNCHANGED <<spawned, running, known_app_pids, cached_method_call, call_data>>
    /\ sleeping' = "none"
    /\ UNCHANGED snapshot
    /\ UNCHANGED <<next_serial, fed>>
    /\ UNCHANGED <<threads, playing>>

\* SIGTERM or SIGINT: handle_signal raises SystemExit, which no except clause
\* of main() catches; the innermost main()'s finally clause runs.
Signal ==
    /\ pc \notin {"stop", "quit", "exited"}
    /\ pc' = "stop"
    /\ call_data' = << >>
    /\ cached_method_call' = EofLine
    /\ known_app_pids' = {}
    /\ h' = NoCall
    /\ UNCHANGED <<state, last_directory, process, outer, spawned, running, mixer,
                   eof, hist>>
    /\ sleeping' = "none"
    /\ snapshot' = {}
    /\ next_serial' = 0 /\ fed' = 0
    /\ UNCHANGED <<threads, playing>>

\* stop(): "if self.process: terminate"
StopTerminate ==
    /\ pc = "stop"
    /\ running' = running \ {process}
    /\ process' = NoProcess
    /\ pc' = "quit"
    /\ UNCHANGED <<state, last_directory, outer, spawned, mixer, known_app_pids,
                   cached_method_call, call_data, eof, h, hist>>
    /\ UNCHANGED sleeping
    /\ UNCHANGED snapshot
    /\ UNCHANGED <<next_serial, fed>>
    /\ UNCHANGED <<threads, playing>>

\* stop(): pygame.mixer.quit(); then SystemExit reaches the enclosing main(),
\* whose finally clause stops its own monitor.
StopQuit ==
    /\ pc = "quit"
    /\ mixer' = FALSE
    /\ IF outer = << >>
       THEN pc' = "exited" /\ UNCHANGED <<process, outer>>
       ELSE /\ pc' = "stop"
            /\ process' = outer[Len(outer)]
            /\ outer' = SubSeq(outer, 1, Len(outer) - 1)
    /\ UNCHANGED <<state, last_directory, spawned, running, known_app_pids,
                   cached_method_call, call_data, eof, h, hist>>
    /\ UNCHANGED sleeping
    /\ UNCHANGED snapshot
    /\ UNCHANGED <<next_serial, fed>>
    /\ UNCHANGED <<threads, playing>>

Next ==
    \/ Popen
    \/ LoopChurn
    \/ LoopLine
    \/ ChurnTerminate
    \/ InnerRead
    \/ HandleBlock
    \/ HandleBlockRaises
    \/ MainRestart
    \/ Signal
    \/ StopTerminate
    \/ StopQuit

Spec == Init /\ [][Next]_vars

\* -------------------------------------------------- the state machine alone
\* handle_app_event called on a monitor in any state, with any event.
ForeignApp == "konsole"

Events ==
    {AppCall(a, NoneInt, p, u) :
        a \in {NoneStr, "", DEFAULT_APP_NAME, ForeignApp},
        p \in {NonePath, DirA, DirB},
        u \in {NoneInt, 1, 2, 3}}

InitHandle ==
    /\ pc = "handle"
    /\ state \in States
    /\ last_directory \in {NonePath, DirA, DirB}
    /\ process = NoProcess
    /\ outer = << >>
    /\ spawned = 0
    /\ running = {}
    /\ mixer = TRUE
    /\ known_app_pids = {}
    /\ cached_method_call = EofLine
    /\ call_data = << >>
    /\ eof = FALSE
    /\ h = NoCall
    /\ hist = NoHist
    /\ sleeping = "none"
    /\ snapshot = {}
    /\ next_serial = 0 /\ fed = 0
    /\ threads = NoThreads /\ playing = {}

HandleEvent ==
    /\ pc = "handle"
    /\ \E event \in Events : Handle(event)
    /\ UNCHANGED <<pc, process, outer, spawned, running, mixer, known_app_pids,
                   cached_method_call, call_data, eof>>
    /\ UNCHANGED sleeping
    /\ UNCHANGED snapshot
    /\ UNCHANGED <<next_serial, fed>>
    /\ UNCHANGED <<threads, playing>>

NextHandle == HandleEvent

SpecHandle == InitHandle /\ [][NextHandle]_vars

\* --------------------------------------------------------- the parser alone
\* extract_app_event called on any block of at most MaxCallData lines.
BlankBody == <<Space>>

ParserLines == ArgLines \cup {TrashLine(BlankBody)}

Blocks ==
    {<<MethodCall>> \o args :
        args \in UNION {[1..k -> ParserLines] : k \in 0..(MaxCallData - 1)}}

InitExtract ==
    /\ pc = "block"
    /\ call_data \in Blocks
    /\ state = InitialState
    /\ last_directory = NonePath
    /\ process = NoProcess
    /\ outer = << >>
    /\ spawned = 0
    /\ running = {}
    /\ mixer = TRUE
    /\ known_app_pids = {}
    /\ cached_method_call = EofLine
    /\ eof = FALSE
    /\ h = NoCall
    /\ hist = NoHist
    /\ sleeping = "none"
    /\ snapshot = {}
    /\ next_serial = 0 /\ fed = 0
    /\ threads = NoThreads /\ playing = {}

\* event = self.extract_app_event(call_data); a block that raises leaves
\* Raised as the event.
ExtractBlock ==
    /\ pc = "block"
    /\ h' = [NoCall EXCEPT !.event = extract_app_event(DEFAULT_APP_NAME, call_data)]
    /\ pc' = "parsed"
    /\ UNCHANGED <<state, last_directory, process, outer, spawned, running, mixer,
                   known_app_pids, cached_method_call, call_data, eof, hist>>
    /\ UNCHANGED sleeping
    /\ UNCHANGED snapshot
    /\ UNCHANGED <<next_serial, fed>>
    /\ UNCHANGED <<threads, playing>>

NextExtract == ExtractBlock

SpecExtract == InitExtract /\ [][NextExtract]_vars

\* ------------------------------------------------------ the playback threads
\* Successive emissions, each starting a thread that runs _play_sound_thread
\* concurrently with the others.
InitPlay ==
    /\ pc = "play"
    /\ state = InitialState
    /\ last_directory = NonePath
    /\ process = NoProcess
    /\ outer = << >>
    /\ spawned = 0
    /\ running = {}
    /\ mixer = TRUE
    /\ known_app_pids = {}
    /\ cached_method_call = EofLine
    /\ call_data = << >>
    /\ eof = FALSE
    /\ h = NoCall
    /\ hist = NoHist
    /\ sleeping = "none"
    /\ snapshot = {}
    /\ next_serial = 0 /\ fed = 0
    /\ threads = NoThreads /\ playing = {}

NotPlay ==
    <<pc, state, last_directory, process, outer, spawned, running, mixer,
      known_app_pids, cached_method_call, call_data, eof, h, hist, sleeping,
      snapshot, next_serial, fed>>

\* play_sound(): Thread(target=self._play_sound_thread).start()
PlaySound ==
    /\ \E t \in PlayThreads :
         /\ threads[t] = "none"
         /\ \A u \in 1..(t - 1) : threads[u] # "none"
         /\ threads' = [threads EXCEPT ![t] = "started"]
    /\ UNCHANGED playing
    /\ UNCHANGED NotPlay

\* "if pygame.mixer.get_busy():": true when any channel is sounding
GetBusy(t) ==
    /\ threads[t] = "started"
    /\ threads' = [threads EXCEPT ![t] = IF playing # {} THEN "stop" ELSE "play"]
    /\ UNCHANGED playing
    /\ UNCHANGED NotPlay

\* pygame.mixer.stop(): every channel is silenced
MixerStop(t) ==
    /\ threads[t] = "stop"
    /\ playing' = {}
    /\ threads' = [threads EXCEPT ![t] = "play"]
    /\ UNCHANGED NotPlay

\* self.sound.play(): the cue starts on a free channel; the thread ends
SoundPlay(t) ==
    /\ threads[t] = "play"
    /\ playing' = playing \cup {t}
    /\ threads' = [threads EXCEPT ![t] = "done"]
    /\ UNCHANGED NotPlay

\* The cue of thread t reaches its end.
CueEnds(t) ==
    /\ t \in playing
    /\ playing' = playing \ {t}
    /\ UNCHANGED threads
    /\ UNCHANGED NotPlay

NextPlay ==
    \/ PlaySound
    \/ \E t \in PlayThreads : GetBusy(t)
    \/ \E t \in PlayThreads : MixerStop(t)
    \/ \E t \in PlayThreads : SoundPlay(t)
    \/ \E t \in PlayThreads : CueEnds(t)

SpecPlay == InitPlay /\ [][NextPlay]_vars

\* ================================================================== claims
\* An event of the target application, in the claims' words.
FromTarget(event) == event.application = DEFAULT_APP_NAME

Shutdown == {"stop", "quit", "exited"}

\* ---- C1
\* C1 as stated: in a run of target-application events that all carry
\* file_uint 3, handled by one fresh monitor, the first event and every event
\* whose file_path differs from that of the event before it plays the sound
\* exactly once.
C1_CuePerChangedPath ==
    (/\ h.called /\ FromTarget(h.event) /\ h.event.file_uint = 3
     /\ h.before.all3
     /\ (~h.before.any \/ h.event.file_path # h.before.path))
    => h.plays = 1

\* C1 as amended: in such a run an event plays the sound exactly once when it
\* is the first event, or when the event before it played nothing and its
\* file_path differs from the file_path of the latest event that played; every
\* other event of the run plays nothing (the event right after one that played,
\* and an event repeating the path of the latest cue).
C1_CuePerNavigation ==
    (h.called /\ FromTarget(h.event) /\ h.event.file_uint = 3 /\ h.before.all3)
    => h.plays =
         IF \/ ~h.before.any
            \/ (h.before.plays = 0 /\ h.event.file_path # h.before.cue)
         THEN 1 ELSE 0

\* A third or later event of such a run plays, after an event that did not.
C1_Witness ==
    /\ h.called /\ FromTarget(h.event) /\ h.event.file_uint = 3
    /\ h.before.all3 /\ h.before.any /\ h.before.plays = 0
    /\ h.before.cue # NonePath
    /\ h.plays = 1

\* ---- C2
\* C2: handle_app_event plays the sound if and only if the event is the target
\* application's, its file_path differs from last_directory, and the state is
\* InitialState with file_uint 3 or WaitingForNewDirState with file_uint 1 or
\* 3; when it plays, last_directory becomes the event's file_path and the
\* state SoundPlayedState.  file_uint 1 in InitialState plays nothing.
C2_EmitsIff ==
    h.called =>
      LET ev == h.event
          emits == /\ FromTarget(ev)
                   /\ ev.file_path # h.pre_last
                   /\ \/ h.pre_state = InitialState /\ ev.file_uint = 3
                      \/ h.pre_state = WaitingForNewDirState /\ ev.file_uint \in {1, 3}
      IN  /\ h.plays = (IF emits THEN 1 ELSE 0)
          /\ h.plays = 1 => (last_directory = ev.file_path /\ state = SoundPlayedState)
          /\ (h.pre_state = InitialState /\ ev.file_uint = 1) => h.plays = 0

\* file_uint 1 plays in WaitingForNewDirState.
C2_Witness ==
    /\ h.called /\ h.pre_state = WaitingForNewDirState /\ h.event.file_uint = 1
    /\ h.plays = 1 /\ state = SoundPlayedState /\ last_directory = h.event.file_path

\* ---- C3
\* C3: the target-application event that follows one that played the sound
\* plays nothing, whatever its file_path, leaves last_directory as it was and
\* takes the state from SoundPlayedState back to InitialState; so no two
\* consecutive target-application events both play.
C3_Cooldown ==
    (h.called /\ FromTarget(h.event) /\ h.before.any /\ h.before.plays = 1)
    => /\ h.pre_state = SoundPlayedState
       /\ h.plays = 0
       /\ last_directory = h.pre_last
       /\ state = InitialState

\* The event after the cue names a new directory with file_uint 3 and is
\* swallowed.
C3_Witness ==
    /\ h.called /\ FromTarget(h.event) /\ h.before.any /\ h.before.plays = 1
    /\ h.before.pre = InitialState /\ h.before.uint3
    /\ h.event.file_uint = 3 /\ h.event.file_path # h.pre_last
    /\ h.plays = 0 /\ state = InitialState

\* ---- C4
\* C4: of two identical consecutive target-application events (same file_path,
\* file_uint 3), the first handled in InitialState, the second plays nothing;
\* no event whose file_path equals last_directory plays; two successive cues
\* of one monitor never carry the same file_path.
C4_NoRepeatedCue ==
    h.called =>
      /\ (/\ FromTarget(h.event) /\ h.event.file_uint = 3
          /\ h.before.any /\ h.before.pre = InitialState /\ h.before.uint3
          /\ h.before.path = h.event.file_path) => h.plays = 0
      /\ h.event.file_path = h.pre_last => h.plays = 0
      /\ (h.plays = 1 /\ h.before.cue # NonePath) => h.event.file_path # h.before.cue

\* The directory of the latest cue is announced again, in InitialState with
\* file_uint 3, and nothing plays.
C4_Witness ==
    /\ h.called /\ FromTarget(h.event) /\ h.event.file_uint = 3
    /\ h.pre_state = InitialState
    /\ h.before.cue # NonePath /\ h.event.file_path = h.before.cue
    /\ h.plays = 0

\* ---- C5
\* C5: in every state, an event whose application is absent or is not the
\* target application plays nothing and leaves state and last_directory as
\* they were.
C5_ApplicationFilter ==
    (h.called /\ (h.event.application = NoneStr \/ ~FromTarget(h.event)))
    => /\ h.plays = 0
       /\ state = h.pre_state
       /\ last_directory = h.pre_last

\* Another application announces a new directory with file_uint 3 while the
\* monitor is in SoundPlayedState.
C5_Witness ==
    /\ h.called /\ h.event.application = ForeignApp
    /\ h.event.file_uint = 3 /\ h.event.file_path # h.pre_last
    /\ h.pre_state = SoundPlayedState /\ state = SoundPlayedState

\* ---- C6
\* C6 as stated: in every state, SoundPlayedState included, a target-application
\* event with no file_path, or with file_uint absent or not 1 or 3, plays
\* nothing and leaves state and last_directory as they were.
C6_MalformedInert ==
    (/\ h.called /\ FromTarget(h.event)
     /\ (h.event.file_path = NonePath \/ h.event.file_uint \notin {1, 3}))
    => /\ h.plays = 0
       /\ state = h.pre_state
       /\ last_directory = h.pre_last

\* ---- C7
\* C7 as stated: the first event handled after monitor() restarted itself on
\* process churn finds the state InitialState and last_directory None.
C7_ChurnResetsState ==
    (h.called /\ h.before.churned)
    => (h.pre_state = InitialState /\ h.pre_last = NonePath)

\* ---- C8
\* C8 as stated: extract_app_event never raises, whatever the block, so no
\* block makes an exception reach main()'s except clause.
C8_ParsingNeverFatal == pc # "except"

\* ---- C9
\* C9 as stated: once readline() has returned the end of the stream, the loop
\* is left and the failure is at main()'s except clause (or the program is
\* shutting down); the loop does not go on.
C9_EndOfStreamIsFatal == eof => pc \in {"except"} \cup Shutdown

\* ---- C10
\* C10 as stated: after a signal, the audio device is released only once every
\* subprocess the program launched and has not terminated is terminated.
C10_AudioReleasedLast == (pc \in Shutdown /\ ~mixer) => running = {}

\* ---- C16
\* C16 as stated: the end of the stream ends a block like the next "method
\* call" line does: once readline() has returned the end of the stream in the
\* inner loop, the accumulation is over and the block goes to the parser.
C16_EndOfStreamEndsBlock == ~(pc = "inner" /\ eof)

\* ---- C18
\* C18: from startup on, through every event and restart, self.state is
\* InitialState or SoundPlayedState, never WaitingForNewDirState.
C18_NeverWaiting == state \in {InitialState, SoundPlayedState}

\* After a fatal-error restart, the new monitor has played the sound and an
\* event has taken it back from SoundPlayedState to InitialState.
C18_Witness ==
    /\ outer # << >>
    /\ h.called /\ h.pre_state = SoundPlayedState /\ state = InitialState

\* ---- C20
\* C20 as stated: at every moment at most one subprocess launched by the
\* program has not been terminated by it.
C20_OneSubprocess == Cardinality(running) <= 1

\* ---- helpers of the parser claims
AllSpaces(body) == \A i \in 1..Len(body) : body[i] = Space

\* A trash:/ line whose body is empty once trimmed.
IsBlankTrash(l) == l.kind = "trash" /\ AllSpaces(l.body)

\* A line that supplies a path: a file:// line, or a trash:/ line with a body.
IsPathLine(l) == l.kind = "file" \/ (l.kind = "trash" /\ ~AllSpaces(l.body))

IsAppLine(l) == l.kind = "app"

\* The position of the last path line of the block, 0 when there is none.
LastPathLine(lines) ==
    IF \E i \in 1..Len(lines) : IsPathLine(lines[i])
    THEN CHOOSE i \in 1..Len(lines) :
           IsPathLine(lines[i]) /\ \A j \in (i + 1)..Len(lines) : ~IsPathLine(lines[j])
    ELSE 0

\* The position of the last application line of the block, 0 when none.
LastAppLine(lines) ==
    IF \E i \in 1..Len(lines) : IsAppLine(lines[i])
    THEN CHOOSE i \in 1..Len(lines) :
           IsAppLine(lines[i]) /\ \A j \in (i + 1)..Len(lines) : ~IsAppLine(lines[j])
    ELSE 0

\* The block with every blank trash line replaced by a line that holds neither
\* a quoted string nor a number.
Blanked(lines) ==
    [i \in 1..Len(lines) |-> IF IsBlankTrash(lines[i]) THEN EofLine ELSE lines[i]]

\* The directory holding p, for an absolute path p that is not the root.
ParentDir(p) ==
    LET k == CHOOSE i \in 1..Len(p) :
               p[i] = Slash /\ \A j \in (i + 1)..Len(p) : p[j] # Slash
    IN  IF k = 1 THEN Root ELSE SubSeq(p, 1, k - 1)

\* ---- C13
\* C13: a trash:/ line whose body is empty after trimming sets neither
\* file_path nor file_uint and the scan goes on: the block gives the event it
\* would give with that line replaced by an inert line, and with no other path
\* line the event has no file_path and no file_uint.
C13_BlankTrashSkipped ==
    (pc = "parsed" /\ \E i \in 1..Len(call_data) : IsBlankTrash(call_data[i]))
    => /\ h.event = extract_app_event(DEFAULT_APP_NAME, Blanked(call_data))
       /\ (~h.event.raised /\ LastPathLine(call_data) = 0)
          => (h.event.file_path = NonePath /\ h.event.file_uint = NoneInt)

\* A blank trash line ends a block whose file:// line and number come first.
C13_Witness ==
    /\ pc = "parsed"
    /\ IsBlankTrash(call_data[Len(call_data)])
    /\ ~h.event.raised
    /\ h.event.file_path = DirA /\ h.event.file_uint = 3

\* ---- C14
\* C14: when the path comes from a file:// line, file_path is the raw path if
\* it is an existing directory and its parent directory otherwise.
C14_FileParent ==
    LET i == LastPathLine(call_data) IN
    (pc = "parsed" /\ ~h.event.raised /\ i > 0 /\ call_data[i].kind = "file")
    => h.event.file_path =
         IF call_data[i].body \in Directories THEN call_data[i].body
         ELSE ParentDir(call_data[i].body)

\* /a/f, not a directory, gives /a.
C14_Witness ==
    LET i == LastPathLine(call_data) IN
    /\ pc = "parsed" /\ ~h.event.raised /\ i > 0
    /\ call_data[i] = FileLine(FileInA)
    /\ h.event.file_path = DirA

\* ---- C19
\* C19 as stated: file_uint, when set, is the number on the line right after
\* the line that supplied file_path, and app_uint, when set, the number on the
\* line right after the application line.
C19_NumberFollowsItsLine ==
    LET i == LastPathLine(call_data)
        j == LastAppLine(call_data)
    IN  (pc = "parsed" /\ ~h.event.raised)
        => /\ h.event.file_uint # NoneInt
              => /\ i > 0 /\ i < Len(call_data)
                 /\ call_data[i + 1] = Uint(h.event.file_uint)
           /\ h.event.app_uint # NoneInt
              => /\ j > 0 /\ j < Len(call_data)
                 /\ call_data[j + 1] = Uint(h.event.app_uint)

\* ---- C12
\* C12 as stated: the step that leaves main()'s except clause to start the new
\* monitor suspends the program in the 5-second sleep first.
C12_RestartWaits == [][(pc = "except" /\ pc' = "popen") => sleeping' = "5"]_vars

C15_Lookahead ==
    /\ pc = "loop"
       => IF cached_method_call # EofLine
          THEN /\ cached_method_call.kind = "mc" /\ cached_method_call.n = fed
               /\ next_serial = NextSerial(fed)
          ELSE next_serial = fed
    /\ pc = "inner"
       => /\ call_data[1].kind = "mc" /\ call_data[1].n = fed
          /\ cached_method_call = EofLine
          /\ next_serial = NextSerial(fed)
    /\ pc = "debounce"
       => /\ call_data[1].kind = "mc" /\ call_data[1].n = fed
          /\ cached_method_call.kind = "mc"
          /\ cached_method_call.n = NextSerial(fed)
          /\ next_serial = NextSerial(NextSerial(fed))

\* The second block of a subprocess, begun by the held-over line, awaits the
\* parser while the third "method call" line is held.
C15_Witness ==
    /\ pc = "debounce" /\ fed = 1 /\ call_data[1].n = 1 /\ Len(call_data) > 1
    /\ cached_method_call.kind = "mc"

\* ---- C11
\* C11 as stated: no two cues sound at the same time, whatever the
\* interleaving of the playback threads.
C11_OneCueAudible == Cardinality(playing) <= 1

====
